---------------------------- MODULE Spec2Model ----------------------------
(***************************************************************************)
(* A model of src/server.js: the recipe backend's nutrient scaling,        *)
(* aggregation and formatting (POST /api/recipes) and its pure nutrient    *)
(* calculators.                                                            *)
(*                                                                         *)
(* JavaScript values are modelled by what the language does with them:     *)
(*   - a string is a sequence of one-character strings, compared by code   *)
(*     unit as the JavaScript relational operators compare strings;        *)
(*   - a Number is NaN, +Infinity, -Infinity or an exact rational n/d in   *)
(*     lowest terms.  The binary rounding of IEEE doubles is not           *)
(*     modelled: the arithmetic is that of the exact values.               *)
(***************************************************************************)
EXTENDS Integers, Sequences, FiniteSets, TLC

(***************************************************************************)
(* Bounds of the model.                                                    *)
(***************************************************************************)
\* longest ingredient list of a request body
MaxLines == 3

-----------------------------------------------------------------------------
(***************************************************************************)
(* JavaScript strings                                                      *)
(***************************************************************************)
Digits == <<"0", "1", "2", "3", "4", "5", "6", "7", "8", "9">>

DigitSet == {Digits[i] : i \in 1..10}

\* the numeric value of a decimal digit character
DigitVal(c) == (CHOOSE i \in 1..10 : Digits[i] = c) - 1

\* the UTF-16 code units of the characters the model's strings are made of
\* that string comparison meets
CodeUnits ==
    " " :> 32 @@ "+" :> 43 @@ "-" :> 45 @@ "." :> 46 @@
    "A" :> 65 @@ "B" :> 66 @@ "L" :> 76 @@ "M" :> 77 @@ "P" :> 80 @@
    "S" :> 83 @@ "Z" :> 90 @@ "a" :> 97 @@ "b" :> 98 @@ "c" :> 99

CharCode(c) == IF c \in DigitSet THEN 48 + DigitVal(c) ELSE CodeUnits[c]

\* a < b on strings: the first differing code unit decides, a proper prefix
\* is smaller
RECURSIVE StrLess(_, _)
StrLess(a, b) ==
    IF b = <<>> THEN FALSE
    ELSE IF a = <<>> THEN TRUE
    ELSE IF CharCode(Head(a)) # CharCode(Head(b))
         THEN CharCode(Head(a)) < CharCode(Head(b))
         ELSE StrLess(Tail(a), Tail(b))

\* a <= b and a >= b on strings
StrLeq(a, b) == ~StrLess(b, a)

StrGeq(a, b) == ~StrLess(a, b)

\* whether string s continues with the characters of p at position i
StartsWithAt(s, i, p) ==
    /\ i + Len(p) - 1 <= Len(s)
    /\ \A j \in 1..Len(p) : s[i + j - 1] = p[j]

\* the decimal digits of a natural number
RECURSIVE NatToChars(_)
NatToChars(n) ==
    IF n < 10 THEN <<Digits[n + 1]>>
    ELSE Append(NatToChars(n \div 10), Digits[(n % 10) + 1])

\* the last w decimal digits of n, zero padded
RECURSIVE PadDigits(_, _)
PadDigits(n, w) ==
    IF w = 0 THEN <<>>
    ELSE Append(PadDigits(n \div 10, w - 1), Digits[(n % 10) + 1])

RECURSIVE Pow10(_)
Pow10(k) == IF k = 0 THEN 1 ELSE 10 * Pow10(k - 1)

-----------------------------------------------------------------------------
(***************************************************************************)
(* JavaScript Numbers                                                      *)
(***************************************************************************)
Abs(x) == IF x < 0 THEN -x ELSE x

RECURSIVE GCD(_, _)
GCD(a, b) == IF b = 0 THEN a ELSE GCD(b, a % b)

NaN == [k |-> "nan", n |-> 0, d |-> 1]

PosInf == [k |-> "inf", n |-> 1, d |-> 1]

NegInf == [k |-> "inf", n |-> -1, d |-> 1]

\* the finite number n/d (d > 0), in lowest terms
Fin(n, d) ==
    LET g == GCD(Abs(n), d)
    IN  [k |-> "fin", n |-> n \div g, d |-> d \div g]

Zero == Fin(0, 1)

IsNaN(x) == x.k = "nan"

IsFinite(x) == x.k = "fin"

Sign(x) == IF x.n > 0 THEN 1 ELSE IF x.n < 0 THEN -1 ELSE 0

\* x + y
NumAdd(x, y) ==
    IF IsNaN(x) \/ IsNaN(y) THEN NaN
    ELSE IF x.k = "inf" /\ y.k = "inf" THEN (IF x.n = y.n THEN x ELSE NaN)
    ELSE IF x.k = "inf" THEN x
    ELSE IF y.k = "inf" THEN y
    ELSE LET g == GCD(x.d, y.d)
         IN  Fin(x.n * (y.d \div g) + y.n * (x.d \div g), (x.d \div g) * y.d)

\* x * y
NumMul(x, y) ==
    IF IsNaN(x) \/ IsNaN(y) THEN NaN
    ELSE IF x.k = "inf" \/ y.k = "inf"
         THEN (IF Sign(x) * Sign(y) = 0 THEN NaN
               ELSE IF Sign(x) * Sign(y) > 0 THEN PosInf ELSE NegInf)
    ELSE LET g1 == GCD(Abs(x.n), y.d)
             g2 == GCD(Abs(y.n), x.d)
         IN  Fin((x.n \div g1) * (y.n \div g2), (x.d \div g2) * (y.d \div g1))

\* x / y
NumDiv(x, y) ==
    IF IsNaN(x) \/ IsNaN(y) THEN NaN
    ELSE IF x.k = "inf"
         THEN (IF y.k = "inf" THEN NaN
               ELSE IF Sign(x) * (IF y.n < 0 THEN -1 ELSE 1) > 0
                    THEN PosInf ELSE NegInf)
    ELSE IF y.k = "inf" THEN Zero
    ELSE IF y.n = 0
         THEN (IF x.n = 0 THEN NaN ELSE IF x.n > 0 THEN PosInf ELSE NegInf)
    ELSE LET s  == IF y.n < 0 THEN -1 ELSE 1
             g1 == GCD(Abs(x.n), Abs(y.n))
             g2 == GCD(x.d, y.d)
         IN  Fin(s * (x.n \div g1) * (y.d \div g2),
                 (x.d \div g2) * (Abs(y.n) \div g1))

\* x > y: false when either side is NaN
NumGt(x, y) ==
    IF IsNaN(x) \/ IsNaN(y) THEN FALSE
    ELSE IF x.k = "inf" THEN x.n > 0 /\ y # x
    ELSE IF y.k = "inf" THEN y.n < 0
    ELSE x.n * y.d > y.n * x.d

\* x >= y: false when either side is NaN
NumGeq(x, y) == ~IsNaN(x) /\ ~IsNaN(y) /\ ~NumGt(y, x)

\* ToBoolean of a Number: NaN and 0 are falsy
Truthy(x) == ~IsNaN(x) /\ ~(x.k = "fin" /\ x.n = 0)

-----------------------------------------------------------------------------
(***************************************************************************)
(* parseFloat and Number.prototype.toFixed                                 *)
(***************************************************************************)
\* index of the first character of s at or after i that is not a space
RECURSIVE SkipSpaces(_, _)
SkipSpaces(s, i) ==
    IF i <= Len(s) /\ s[i] = " " THEN SkipSpaces(s, i + 1) ELSE i

\* number of decimal digits of s starting at i
RECURSIVE DigitRun(_, _)
DigitRun(s, i) ==
    IF i <= Len(s) /\ s[i] \in DigitSet THEN 1 + DigitRun(s, i + 1) ELSE 0

\* the value of the w digits of s that start at i
RECURSIVE DigitsValue(_, _, _)
DigitsValue(s, i, w) ==
    IF w = 0 THEN 0
    ELSE 10 * DigitsValue(s, i, w - 1) + DigitVal(s[i + w - 1])

InfinityText == <<"I", "n", "f", "i", "n", "i", "t", "y">>

NaNText == <<"N", "a", "N">>

UndefinedText == <<"u", "n", "d", "e", "f", "i", "n", "e", "d">>

\* parseFloat(s): leading white space is skipped, then the longest prefix
\* that is a decimal literal (sign, Infinity, digits, a period, digits) is
\* the value; NaN when there is none.  The alphabet of the model's strings
\* holds no exponent marker.
ParseFloat(s) ==
    LET i0   == SkipSpaces(s, 1)
        neg  == i0 <= Len(s) /\ s[i0] = "-"
        i1   == IF i0 <= Len(s) /\ s[i0] \in {"-", "+"} THEN i0 + 1 ELSE i0
        w    == DigitRun(s, i1)
        dot  == i1 + w <= Len(s) /\ s[i1 + w] = "."
        f    == IF dot THEN DigitRun(s, i1 + w + 1) ELSE 0
        mag  == DigitsValue(s, i1, w) * Pow10(f) + DigitsValue(s, i1 + w + 1, f)
    IN  IF StartsWithAt(s, i1, InfinityText)
        THEN (IF neg THEN NegInf ELSE PosInf)
        ELSE IF w = 0 /\ f = 0 THEN NaN
        ELSE Fin(IF neg THEN -mag ELSE mag, Pow10(f))

\* x.toFixed(f) for a Number x: the sign, then the integer n for which
\* n / 10^f - |x| is closest to zero (the larger n on a tie), written with f
\* fraction digits
ToFixed(x, f) ==
    IF IsNaN(x) THEN NaNText
    ELSE IF x.k = "inf"
         THEN (IF x.n < 0 THEN <<"-">> ELSE <<>>) \o InfinityText
    ELSE LET m == (2 * Abs(x.n) * Pow10(f) + x.d) \div (2 * x.d)
         IN  (IF x.n < 0 THEN <<"-">> ELSE <<>>)
             \o NatToChars(m \div Pow10(f))
             \o (IF f = 0 THEN <<>> ELSE <<".">> \o PadDigits(m % Pow10(f), f))

-----------------------------------------------------------------------------
(***************************************************************************)
(* The nutrient calculation functions                                      *)
(***************************************************************************)
\* as CalculateVitaminD, with the upper ends of the ranges left out (< for <=)
CalculateVitaminDOpenEnded(foodCode, chocal, oh25d3) ==
    IF StrGeq(foodCode, <<"A", "0", "0", "1">>)
           /\ StrLess(foodCode, <<"L", "0", "0", "4">>)
    THEN chocal
    ELSE IF StrGeq(foodCode, <<"M", "0", "0", "1">>)
                /\ StrLess(foodCode, <<"S", "0", "1", "0">>)
         THEN NumAdd(chocal, NumMul(Fin(5, 1), oh25d3))
         ELSE Zero

\* calculateVitaminD(foodCode, chocal, oh25d3)
CalculateVitaminD(foodCode, chocal, oh25d3) ==
    IF StrGeq(foodCode, <<"A", "0", "0", "1">>)
           /\ StrLeq(foodCode, <<"L", "0", "0", "4">>)
    THEN chocal
    ELSE IF StrGeq(foodCode, <<"M", "0", "0", "1">>)
                /\ StrLeq(foodCode, <<"S", "0", "1", "0">>)
         THEN NumAdd(chocal, NumMul(Fin(5, 1), oh25d3))
         ELSE Zero

-----------------------------------------------------------------------------
(***************************************************************************)
(* The nutrient data contract                                              *)
(***************************************************************************)
\* the scaled fields, in the order of the source ("ug" stands for the
\* source's micro sign)
NumericFields ==
    << "Protein (g)", "Fat (g)", "Total fibre (g)", "Carbohydrate (g)",
       "Energy (Kcal)", "Energy (KJ)", "Thiamine, B1 (mg)", "Riboflavin, B2 (mg)",
       "Niacin, B3 (mg)", "Pantothenic Acid B5 (mg)", "Pyridoxine B6 (mg)",
       "Biotin, B7 (ug)", "Folate, B9 (ug)", "Vitamin C (mg)", "Vitamin A (ug)",
       "Vitamin D (ug)", "VITE (mg)", "VITK1 (ug)", "Iron (Fe) mg",
       "Calcium (Ca) mg", "Magnesium (Mg) mg", "Zinc (Zn) mg", "Selenium (Se) ug",
       "Sodium (Na) mg", "Potassium (K) mg", "Phosphorus (P) mg", "Cobalt (Co) mg",
       "Omega 3 (mg)", "Omega 6 (mg)", "MUFA", "PUFA", "SATURATED FAT",
       "TOTAL SUGAR (g)" >>

NumericFieldSet == {NumericFields[i] : i \in 1..Len(NumericFields)}

\* the accumulator's fields, in the order of its literal
TotalKeys ==
    << "energy", "protein", "fat", "carbs", "fiber", "vitaminD", "vitaminA",
       "omega3", "omega6", "energyKJ", "thiamine", "riboflavin", "niacin",
       "pantothenicAcid", "pyridoxine", "biotin", "folate", "vitaminC",
       "vitaminE", "vitaminK1", "iron", "calcium", "magnesium", "zinc",
       "selenium", "sodium", "potassium", "phosphorus", "cobalt", "mufa",
       "pufa", "saturatedFat", "totalSugar" >>

TotalKeySet == {TotalKeys[i] : i \in 1..Len(TotalKeys)}

\* as TotalSource, with fat adding the field of the line below it
TotalSourceSlip ==
    [ energy |-> "Energy (Kcal)", protein |-> "Protein (g)", fat |-> "Carbohydrate (g)",
      carbs |-> "Carbohydrate (g)", fiber |-> "Total fibre (g)",
      vitaminD |-> "Vitamin D (ug)", vitaminA |-> "Vitamin A (ug)",
      omega3 |-> "Omega 3 (mg)", omega6 |-> "Omega 6 (mg)",
      energyKJ |-> "Energy (KJ)", thiamine |-> "Thiamine, B1 (mg)",
      riboflavin |-> "Riboflavin, B2 (mg)", niacin |-> "Niacin, B3 (mg)",
      pantothenicAcid |-> "Pantothenic Acid B5 (mg)",
      pyridoxine |-> "Pyridoxine B6 (mg)", biotin |-> "Biotin, B7 (ug)",
      folate |-> "Folate, B9 (ug)", vitaminC |-> "Vitamin C (mg)",
      vitaminE |-> "VITE (mg)", vitaminK1 |-> "VITK1 (ug)",
      iron |-> "Iron (Fe) mg", calcium |-> "Calcium (Ca) mg",
      magnesium |-> "Magnesium (Mg) mg", zinc |-> "Zinc (Zn) mg",
      selenium |-> "Selenium (Se) ug", sodium |-> "Sodium (Na) mg",
      potassium |-> "Potassium (K) mg", phosphorus |-> "Phosphorus (P) mg",
      cobalt |-> "Cobalt (Co) mg", mufa |-> "MUFA", pufa |-> "PUFA",
      saturatedFat |-> "SATURATED FAT", totalSugar |-> "TOTAL SUGAR (g)" ]

\* totalNutrition.<key> += scaled[<field>]: the field each accumulator adds
TotalSource ==
    [ energy |-> "Energy (Kcal)", protein |-> "Protein (g)", fat |-> "Fat (g)",
      carbs |-> "Carbohydrate (g)", fiber |-> "Total fibre (g)",
      vitaminD |-> "Vitamin D (ug)", vitaminA |-> "Vitamin A (ug)",
      omega3 |-> "Omega 3 (mg)", omega6 |-> "Omega 6 (mg)",
      energyKJ |-> "Energy (KJ)", thiamine |-> "Thiamine, B1 (mg)",
      riboflavin |-> "Riboflavin, B2 (mg)", niacin |-> "Niacin, B3 (mg)",
      pantothenicAcid |-> "Pantothenic Acid B5 (mg)",
      pyridoxine |-> "Pyridoxine B6 (mg)", biotin |-> "Biotin, B7 (ug)",
      folate |-> "Folate, B9 (ug)", vitaminC |-> "Vitamin C (mg)",
      vitaminE |-> "VITE (mg)", vitaminK1 |-> "VITK1 (ug)",
      iron |-> "Iron (Fe) mg", calcium |-> "Calcium (Ca) mg",
      magnesium |-> "Magnesium (Mg) mg", zinc |-> "Zinc (Zn) mg",
      selenium |-> "Selenium (Se) ug", sodium |-> "Sodium (Na) mg",
      potassium |-> "Potassium (K) mg", phosphorus |-> "Phosphorus (P) mg",
      cobalt |-> "Cobalt (Co) mg", mufa |-> "MUFA", pufa |-> "PUFA",
      saturatedFat |-> "SATURATED FAT", totalSugar |-> "TOTAL SUGAR (g)" ]

\* the digits each total is written with in the recipe row
ToFixedDigits ==
    [k \in TotalKeySet |->
        IF k \in {"thiamine", "riboflavin", "pyridoxine", "cobalt"} THEN 3 ELSE 2]

-----------------------------------------------------------------------------
(***************************************************************************)
(* JavaScript values that are a string, a number or undefined              *)
(***************************************************************************)
JsStr(s) == [t |-> "string", s |-> s]

JsNum(x) == [t |-> "number", v |-> x]

Undefined == [t |-> "undefined"]

\* ToNumber of a number or undefined
ToNumber(v) == IF v.t = "number" THEN v.v ELSE NaN

-----------------------------------------------------------------------------
(***************************************************************************)
(* Reading the nutrient sheet                                              *)
(***************************************************************************)
SeqRange(s) == {s[i] : i \in 1..Len(s)}

IndexOf(s, x) == CHOOSE i \in 1..Len(s) : s[i] = x

\* getNutrientData: the rows after the header row, each an object keyed by
\* the headers, a missing or empty cell read as ''
GetNutrientData(values) ==
    IF Len(values) = 0 THEN <<>>
    ELSE LET headers == values[1]
         IN  [j \in 1..(Len(values) - 1) |->
                 [h \in SeqRange(headers) |->
                     LET row == values[j + 1]
                         i   == IndexOf(headers, h)
                     IN  IF i <= Len(row) THEN row[i] ELSE <<>>]]

\* String(item[field]): the text parseFloat reads
FieldText(item, field) ==
    IF field \in DOMAIN item THEN item[field] ELSE UndefinedText

\* as ParseOrZero, without the || 0
ParseOrZeroDropped(s) == ParseFloat(s)

\* parseFloat(x) || 0
ParseOrZero(s) == LET x == ParseFloat(s) IN IF Truthy(x) THEN x ELSE Zero

\* nutrientData.find(n => n['Food code'] === code): the index of the first
\* row with the code, 0 when there is none
FindIndex(data, code) ==
    LET hits == {j \in 1..Len(data) :
                    "Food code" \in DOMAIN data[j] /\ data[j]["Food code"] = code}
    IN  IF hits = {} THEN 0 ELSE CHOOSE j \in hits : \A h \in hits : j <= h

Hundred == Fin(100, 1)

\* calculateScaledNutrition(nutrientData, quantity)
CalculateScaledNutrition(nutrient, quantity) ==
    LET factor == NumDiv(ToNumber(quantity), Hundred)
    IN  [field \in NumericFieldSet |->
            NumMul(ParseOrZero(FieldText(nutrient, field)), factor)]

-----------------------------------------------------------------------------
(***************************************************************************)
(* POST /api/recipes: the synchronous part                                 *)
(***************************************************************************)
\* as ZeroTotals, with the last field left out of the literal: what += then
\* reads is undefined, and the sum is NaN
ZeroTotalsShort == [k \in TotalKeySet |-> IF k = "totalSugar" THEN NaN ELSE Zero]

\* let totalNutrition = { energy: 0, ... }
ZeroTotals == [k \in TotalKeySet |-> Zero]

\* the scaled columns of a recipe item row, after its identifying columns
ItemColumns ==
    << "Energy (Kcal)", "Protein (g)", "Fat (g)", "Carbohydrate (g)",
       "Total fibre (g)", "Vitamin D (ug)", "Vitamin A (ug)", "Omega 3 (mg)",
       "Omega 6 (mg)", "Energy (KJ)", "Thiamine, B1 (mg)", "Riboflavin, B2 (mg)",
       "Niacin, B3 (mg)", "Pantothenic Acid B5 (mg)", "Pyridoxine B6 (mg)",
       "Biotin, B7 (ug)", "Folate, B9 (ug)", "Vitamin C (mg)", "VITE (mg)",
       "VITK1 (ug)", "Iron (Fe) mg", "Calcium (Ca) mg", "Magnesium (Mg) mg",
       "Zinc (Zn) mg", "Selenium (Se) ug", "Sodium (Na) mg", "Potassium (K) mg",
       "Phosphorus (P) mg", "Cobalt (Co) mg", "MUFA", "PUFA", "SATURATED FAT",
       "TOTAL SUGAR (g)" >>

\* one recipe item row (the timestamp and the display name, carried through
\* unchanged, are left out)
ItemRow(recipeId, ingredient, scaled) ==
    [ recipeId        |-> recipeId,
      lineNo          |-> ingredient.lineNo,
      code            |-> ingredient.code,
      quantityInGrams |-> ingredient.quantityInGrams,
      scaled          |-> [i \in 1..Len(ItemColumns) |-> scaled[ItemColumns[i]]] ]

\* as Accumulate, with the row put in front of the list (unshift for push)
AccumulateUnshift(acc, recipeId, nutrient, ingredient) ==
    LET scaled == CalculateScaledNutrition(nutrient, ingredient.quantityInGrams)
    IN  [ total |-> [k \in TotalKeySet |->
                        NumAdd(acc.total[k], scaled[TotalSource[k]])],
          items |-> <<ItemRow(recipeId, ingredient, scaled)>> \o acc.items ]

\* a found ingredient: its scaled fields are added field by field, and its
\* row is pushed
Accumulate(acc, recipeId, nutrient, ingredient) ==
    LET scaled == CalculateScaledNutrition(nutrient, ingredient.quantityInGrams)
    IN  [ total |-> [k \in TotalKeySet |->
                        NumAdd(acc.total[k], scaled[TotalSource[k]])],
          items |-> Append(acc.items, ItemRow(recipeId, ingredient, scaled)) ]

\* as LoopBody, with a failed lookup defaulted to an empty object instead
\* of skipped (find(...) || {})
LoopBodyDefaultsMissing(acc, recipeId, data, ingredient) ==
    LET j == FindIndex(data, ingredient.code)
    IN  Accumulate(acc, recipeId,
                   IF j = 0 THEN [h \in {} |-> <<>>] ELSE data[j], ingredient)

\* one pass of the loop over the ingredients: acc is the accumulator and the
\* rows so far; if (!nutrient) continue
LoopBody(acc, recipeId, data, ingredient) ==
    LET j == FindIndex(data, ingredient.code)
    IN  IF j = 0 THEN acc ELSE Accumulate(acc, recipeId, data[j], ingredient)

\* as Omega3To6Ratio, with the guard on the numerator
Omega3To6RatioGuardsOmega3(total) ==
    IF NumGt(total.omega3, Zero)
    THEN JsStr(ToFixed(NumDiv(total.omega3, total.omega6), 2))
    ELSE JsNum(Zero)

\* const omega3To6Ratio = omega6 > 0 ? (omega3 / omega6).toFixed(2) : 0
Omega3To6Ratio(total) ==
    IF NumGt(total.omega6, Zero)
    THEN JsStr(ToFixed(NumDiv(total.omega3, total.omega6), 2))
    ELSE JsNum(Zero)

\* as RowPerServing, without the division by the yield
RowPerServingOfTotal(total, recipeYield) ==
    [ energy  |-> JsStr(ToFixed(total.energy, 2)),
      protein |-> JsStr(ToFixed(total.protein, 2)),
      fat     |-> JsStr(ToFixed(total.fat, 2)),
      carbs   |-> JsStr(ToFixed(total.carbs, 2)),
      fiber   |-> JsStr(ToFixed(total.fiber, 2)) ]

\* the last five columns of the recipe row:
\* (totalNutrition.<key> / recipeYield).toFixed(2)
RowPerServing(total, recipeYield) ==
    [ energy  |-> JsStr(ToFixed(NumDiv(total.energy, ToNumber(recipeYield)), 2)),
      protein |-> JsStr(ToFixed(NumDiv(total.protein, ToNumber(recipeYield)), 2)),
      fat     |-> JsStr(ToFixed(NumDiv(total.fat, ToNumber(recipeYield)), 2)),
      carbs   |-> JsStr(ToFixed(NumDiv(total.carbs, ToNumber(recipeYield)), 2)),
      fiber   |-> JsStr(ToFixed(NumDiv(total.fiber, ToNumber(recipeYield)), 2)) ]

\* nutrition.perServing of the response
ResponsePerServing(total, recipeYield) ==
    [ energy  |-> JsStr(ToFixed(NumDiv(total.energy, ToNumber(recipeYield)), 2)),
      protein |-> JsStr(ToFixed(NumDiv(total.protein, ToNumber(recipeYield)), 2)),
      fat     |-> JsStr(ToFixed(NumDiv(total.fat, ToNumber(recipeYield)), 2)),
      carbs   |-> JsStr(ToFixed(NumDiv(total.carbs, ToNumber(recipeYield)), 2)),
      fiber   |-> JsStr(ToFixed(NumDiv(total.fiber, ToNumber(recipeYield)), 2)) ]

\* the recipe row (the timestamp and the request's text fields, carried
\* through unchanged, are left out)
RecipeRow(recipeId, recipeYield, total, ratio) ==
    [ recipeId       |-> recipeId,
      yield          |-> recipeYield,
      total          |-> [k \in TotalKeySet |->
                             JsStr(ToFixed(total[k], ToFixedDigits[k]))],
      omega3To6Ratio |-> ratio,
      perServing     |-> RowPerServing(total, recipeYield) ]

\* the body of the 200 response
SuccessResponse(recipeId, recipeYield, total) ==
    [ status    |-> 200,
      recipeId  |-> recipeId,
      nutrition |-> [ total      |-> [k \in TotalKeySet |-> JsNum(total[k])],
                      perServing |-> ResponsePerServing(total, recipeYield) ] ]

\* the body of the catch block's response
ErrorResponse == [status |-> 500, error |-> "Failed to create recipe"]

NoResponse == [status |-> 0]

-----------------------------------------------------------------------------
(***************************************************************************)
(* The inputs the model draws from                                         *)
(***************************************************************************)
\* a food code: one letter and three digits
Code(letter, n) == <<letter>> \o PadDigits(n, 3)

\* the text of h hundredths, with two fraction digits
DecimalText(h) == NatToChars(h \div 100) \o <<".">> \o PadDigits(h % 100, 2)

FullHeaders == <<"Food code", "Food Name">> \o NumericFields

FoodName == <<"a">>

\* a row whose 33 cells are the decimals (base + 1)/100 .. (base + 33)/100
PlainCells(base) == [i \in 1..Len(NumericFields) |-> DecimalText(base + i)]

\* cells that are empty, not numeric, or numeric only in a prefix
OddTexts ==
    << <<>>, <<"a", "b", "c">>, <<" ", "7">>, <<"1", "2", "a", "b", "c">>,
       <<".", "5">>, <<"5", ".">> >>

OddCells(n) == [i \in 1..n |-> OddTexts[((i - 1) % Len(OddTexts)) + 1]]

\* cells with negative values, an infinite Omega 3 and a plain Omega 6
SignedCells ==
    [i \in 1..Len(NumericFields) |->
        IF NumericFields[i] = "Omega 3 (mg)" THEN InfinityText
        ELSE IF NumericFields[i] = "Omega 6 (mg)" THEN DecimalText(250)
        ELSE IF i % 2 = 1 THEN <<"-", "3">>
        ELSE DecimalText(i)]

\* the values of NutrientData!A:AH: a full sheet whose second row stops
\* after the Omega 3 column; a sheet without the Energy (Kcal) column that
\* holds one code twice; a sheet with no rows
NutrientSheets ==
    { << FullHeaders,
         <<Code("A", 1), FoodName>> \o PlainCells(25),
         <<Code("B", 2), FoodName>> \o OddCells(28),
         <<Code("C", 3), FoodName>> \o SignedCells >>,
      << SelectSeq(FullHeaders, LAMBDA h : h # "Energy (Kcal)"),
         <<Code("A", 1), FoodName>> \o SubSeq(PlainCells(40), 1, 32),
         <<Code("A", 1), FoodName>> \o SubSeq(PlainCells(70), 1, 32) >>,
      << >> }

Num(n) == JsNum(Fin(n, 1))

\* the ingredient lines of a request body, without their line numbers
Lines ==
    { [code |-> Code("A", 1), quantityInGrams |-> Num(15)],
      [code |-> Code("B", 2), quantityInGrams |-> Num(100)],
      [code |-> Code("Z", 999), quantityInGrams |-> Num(50)],
      [code |-> Code("A", 1), quantityInGrams |-> Undefined],
      [code |-> Code("C", 3), quantityInGrams |-> Num(50)] }

\* the lines two concurrent requests draw from
FewLines ==
    { [code |-> Code("A", 1), quantityInGrams |-> Num(15)],
      [code |-> Code("B", 2), quantityInGrams |-> Num(100)] }

Yields == {Num(2), Num(3)}

\* the ingredient lists of at most MaxLines lines over ls, numbered in order
IngredientLists(ls, most) ==
    UNION { { [i \in 1..n |-> [ lineNo          |-> i,
                                code            |-> f[i].code,
                                quantityInGrams |-> f[i].quantityInGrams ]]
              : f \in [1..n -> ls] }
            : n \in 0..most }

\* req.body: the declared yield and the ingredients, which a body may lack
Bodies(ls) ==
    { [yield |-> y, iterable |-> TRUE, ingredients |-> l]
        : y \in Yields, l \in IngredientLists(ls, MaxLines) }
    \cup { [yield |-> Num(2), iterable |-> FALSE, ingredients |-> <<>>] }

\* the bodies two concurrent requests draw from, a line shorter than those
\* of a single request
FewBodies ==
    { [yield |-> Num(3), iterable |-> TRUE, ingredients |-> l]
        : l \in IngredientLists(FewLines, MaxLines - 1) }
      \cup { [yield |-> Num(3), iterable |-> FALSE, ingredients |-> <<>>] }

NoBody == [yield |-> Undefined, iterable |-> FALSE, ingredients |-> <<>>]

\* the food codes calculateVitaminD is called with: the ends of the two
\* ranges, codes next to them, prefixes and extensions of them, codes
\* between and outside the ranges
VitaminDCodes ==
    { Code("A", 0), Code("A", 1), Code("B", 2), Code("L", 4), Code("L", 5),
      Code("L", 4) \o <<"0">>, <<"L", "0", "0">>, Code("M", 0), Code("M", 1),
      <<"M">>, Code("P", 5), Code("S", 10), Code("S", 11), <<"S", "0", "1">>,
      Code("Z", 999), <<"a", "0", "0", "1">>, <<"9", "9", "9", "9">>, <<>> }

\* the values calculateVitaminD is called with
VitaminDValues == {Zero, Fin(2, 1), Fin(10, 1), Fin(3, 2)}

-----------------------------------------------------------------------------
(***************************************************************************)
(* The state                                                               *)
(***************************************************************************)
Requests == {1, 2}

VARIABLES
    nutrientSheet,     \* the values of the NutrientData sheet
    recipesSheet,      \* the rows appended to the Recipes sheet
    recipeItemsSheet,  \* the rows appended to the RecipeItems sheet
    body,              \* body[r]: req.body, once the handler has read it
    pc,                \* pc[r]: where the handler of request r stands
    nutrientData,      \* nutrientData[r]: what getNutrientData returned
    totalNutrition,    \* the accumulators
    recipeItems,       \* the item row lists
    idx,               \* idx[r]: the ingredient the loop is at
    recipeRow,         \* recipeRow[r]
    response,          \* response[r]: what res.json was given
    vitD               \* a call of calculateVitaminD and its result

vars == << nutrientSheet, recipesSheet, recipeItemsSheet, body, pc,
           nutrientData, totalNutrition, recipeItems, idx, recipeRow,
           response, vitD >>

\* as Slot, with one accumulator and one row list declared outside the
\* handler
SlotShared(r) == 1

\* the accumulator and the row list request r works on: each invocation
\* of the handler declares its own
Slot(r) == r

\* the value of a variable before its declaration is reached
NotYetTotals == [k \in TotalKeySet |-> NaN]

NoRow == [recipeId |-> 0]

NoCall == [called |-> FALSE]

\* the positions of the handler that are between two awaits
SyncPcs == {"begin", "loop"}

\* the handler of r may run: no other handler is in a synchronous stretch
MayRun(r) == \A q \in Requests \ {r} : pc[q] \notin SyncPcs

\* the requests in active have arrived and their handlers are about to run
InitHandlers(active, sheets) ==
    /\ nutrientSheet \in sheets
    /\ recipesSheet = <<>>
    /\ recipeItemsSheet = <<>>
    /\ body = [r \in Requests |-> NoBody]
    /\ pc = [r \in Requests |-> IF r \in active THEN "getClient" ELSE "none"]
    /\ nutrientData = [r \in Requests |-> <<>>]
    /\ totalNutrition = [r \in Requests |-> NotYetTotals]
    /\ recipeItems = [r \in Requests |-> <<>>]
    /\ idx = [r \in Requests |-> 0]
    /\ recipeRow = [r \in Requests |-> NoRow]
    /\ response = [r \in Requests |-> NoResponse]

Init ==
    /\ InitHandlers({1}, NutrientSheets)
    /\ vitD = NoCall

-----------------------------------------------------------------------------
(***************************************************************************)
(* POST /api/recipes, await by await                                       *)
(***************************************************************************)
\* await getGoogleSheetsClient() resolves
GetGoogleSheetsClient(r) ==
    /\ pc[r] = "getClient"
    /\ MayRun(r)
    /\ pc' = [pc EXCEPT ![r] = "getNutrientData"]
    /\ UNCHANGED << nutrientSheet, recipesSheet, recipeItemsSheet, body,
                    nutrientData, totalNutrition, recipeItems, idx, recipeRow,
                    response, vitD >>

\* await getNutrientData(sheets) resolves
FetchNutrientData(r) ==
    /\ pc[r] = "getNutrientData"
    /\ MayRun(r)
    /\ nutrientData' = [nutrientData EXCEPT ![r] = GetNutrientData(nutrientSheet)]
    /\ pc' = [pc EXCEPT ![r] = "getUnitConversions"]
    /\ UNCHANGED << nutrientSheet, recipesSheet, recipeItemsSheet, body,
                    totalNutrition, recipeItems, idx, recipeRow, response, vitD >>

\* await getUnitConversions(sheets) resolves; the map it returns is never
\* read
FetchUnitConversions(r) ==
    /\ pc[r] = "getUnitConversions"
    /\ MayRun(r)
    /\ pc' = [pc EXCEPT ![r] = "begin"]
    /\ UNCHANGED << nutrientSheet, recipesSheet, recipeItemsSheet, body,
                    nutrientData, totalNutrition, recipeItems, idx, recipeRow,
                    response, vitD >>

\* req.body is read (it is one of bodies), recipeId is drawn, the
\* accumulator and the row list are declared
Begin(r, bodies) ==
    /\ pc[r] = "begin"
    /\ MayRun(r)
    /\ body' \in {[body EXCEPT ![r] = b] : b \in bodies}
    /\ totalNutrition' = [totalNutrition EXCEPT ![Slot(r)] = ZeroTotals]
    /\ recipeItems' = [recipeItems EXCEPT ![Slot(r)] = <<>>]
    /\ idx' = [idx EXCEPT ![r] = 1]
    /\ pc' = [pc EXCEPT ![r] = "loop"]
    /\ UNCHANGED << nutrientSheet, recipesSheet, recipeItemsSheet,
                    nutrientData, recipeRow, response, vitD >>

\* one ingredient of for (const ingredient of ingredients)
LoopStep(r) ==
    /\ pc[r] = "loop"
    /\ MayRun(r)
    /\ body[r].iterable
    /\ idx[r] <= Len(body[r].ingredients)
    /\ LET acc == LoopBody([ total |-> totalNutrition[Slot(r)],
                             items |-> recipeItems[Slot(r)] ],
                           r, nutrientData[r], body[r].ingredients[idx[r]])
       IN  /\ totalNutrition' = [totalNutrition EXCEPT ![Slot(r)] = acc.total]
           /\ recipeItems' = [recipeItems EXCEPT ![Slot(r)] = acc.items]
    /\ idx' = [idx EXCEPT ![r] = idx[r] + 1]
    /\ UNCHANGED << nutrientSheet, recipesSheet, recipeItemsSheet, body, pc,
                    nutrientData, recipeRow, response, vitD >>

\* catch (error): the 500 response
Catch(r) ==
    /\ response' = [response EXCEPT ![r] = ErrorResponse]
    /\ pc' = [pc EXCEPT ![r] = "done"]

\* for ... of over ingredients that the body does not hold throws
LoopThrows(r) ==
    /\ pc[r] = "loop"
    /\ MayRun(r)
    /\ ~body[r].iterable
    /\ Catch(r)
    /\ UNCHANGED << nutrientSheet, recipesSheet, recipeItemsSheet, body,
                    nutrientData, totalNutrition, recipeItems, idx, recipeRow,
                    vitD >>

\* after the loop: the ratio and the recipe row
Format(r) ==
    /\ pc[r] = "loop"
    /\ MayRun(r)
    /\ body[r].iterable
    /\ idx[r] > Len(body[r].ingredients)
    /\ recipeRow' = [recipeRow EXCEPT ![r] =
           RecipeRow(r, body[r].yield, totalNutrition[Slot(r)],
                     Omega3To6Ratio(totalNutrition[Slot(r)]))]
    /\ pc' = [pc EXCEPT ![r] = "appendRecipe"]
    /\ UNCHANGED << nutrientSheet, recipesSheet, recipeItemsSheet, body,
                    nutrientData, totalNutrition, recipeItems, idx, response,
                    vitD >>

\* await append to the Recipes sheet resolves
AppendRecipe(r) ==
    /\ pc[r] = "appendRecipe"
    /\ MayRun(r)
    /\ recipesSheet' = Append(recipesSheet, recipeRow[r])
    /\ pc' = [pc EXCEPT ![r] =
           IF Len(recipeItems[Slot(r)]) > 0 THEN "appendItems" ELSE "respond"]
    /\ UNCHANGED << nutrientSheet, recipeItemsSheet, body, nutrientData,
                    totalNutrition, recipeItems, idx, recipeRow, response, vitD >>

\* await append to the RecipeItems sheet resolves
AppendItems(r) ==
    /\ pc[r] = "appendItems"
    /\ MayRun(r)
    /\ recipeItemsSheet' = recipeItemsSheet \o recipeItems[Slot(r)]
    /\ pc' = [pc EXCEPT ![r] = "respond"]
    /\ UNCHANGED << nutrientSheet, recipesSheet, body, nutrientData,
                    totalNutrition, recipeItems, idx, recipeRow, response, vitD >>

\* res.json({ success: true, ... })
Respond(r) ==
    /\ pc[r] = "respond"
    /\ MayRun(r)
    /\ response' = [response EXCEPT ![r] =
           SuccessResponse(r, body[r].yield, totalNutrition[Slot(r)])]
    /\ pc' = [pc EXCEPT ![r] = "done"]
    /\ UNCHANGED << nutrientSheet, recipesSheet, recipeItemsSheet, body,
                    nutrientData, totalNutrition, recipeItems, idx, recipeRow,
                    vitD >>

\* an awaited call to the spreadsheet service rejects
AwaitRejects(r) ==
    /\ pc[r] \in {"getClient", "getNutrientData", "getUnitConversions",
                  "appendRecipe", "appendItems"}
    /\ MayRun(r)
    /\ Catch(r)
    /\ UNCHANGED << nutrientSheet, recipesSheet, recipeItemsSheet, body,
                    nutrientData, totalNutrition, recipeItems, idx, recipeRow,
                    vitD >>

\* a step of the handler of r, whose body is one of bodies
Handler(r, bodies) ==
    \/ GetGoogleSheetsClient(r)
    \/ FetchNutrientData(r)
    \/ FetchUnitConversions(r)
    \/ Begin(r, bodies)
    \/ LoopStep(r)
    \/ LoopThrows(r)
    \/ Format(r)
    \/ AppendRecipe(r)
    \/ AppendItems(r)
    \/ Respond(r)
    \/ AwaitRejects(r)

\* one request
Next == Handler(1, Bodies(Lines))

Spec == Init /\ [][Next]_vars

-----------------------------------------------------------------------------
(***************************************************************************)
(* Two requests whose handlers interleave at their awaits                  *)
(***************************************************************************)
\* the sheet with every column
FullSheets == {sh \in NutrientSheets : Len(sh) > 0 /\ sh[1] = FullHeaders}

InitConcurrent ==
    /\ InitHandlers(Requests, FullSheets)
    /\ vitD = NoCall

NextConcurrent == \E r \in Requests : Handler(r, FewBodies)

SpecConcurrent == InitConcurrent /\ [][NextConcurrent]_vars

-----------------------------------------------------------------------------
(***************************************************************************)
(* Calls of calculateVitaminD                                              *)
(***************************************************************************)
InitVitaminD ==
    /\ InitHandlers({}, {<<>>})
    /\ vitD \in { [called |-> FALSE, foodCode |-> c, chocal |-> x, oh25d3 |-> y]
                    : c \in VitaminDCodes, x \in VitaminDValues,
                      y \in VitaminDValues }

CallVitaminD ==
    /\ ~vitD.called
    /\ vitD' = [ called   |-> TRUE,
                 foodCode |-> vitD.foodCode,
                 chocal   |-> vitD.chocal,
                 oh25d3   |-> vitD.oh25d3,
                 result   |-> CalculateVitaminD(vitD.foodCode, vitD.chocal,
                                                vitD.oh25d3) ]
    /\ UNCHANGED << nutrientSheet, recipesSheet, recipeItemsSheet, body, pc,
                    nutrientData, totalNutrition, recipeItems, idx, recipeRow,
                    response >>

NextVitaminD == CallVitaminD

SpecVitaminD == InitVitaminD /\ [][NextVitaminD]_vars

-----------------------------------------------------------------------------
(***************************************************************************)
(* Properties of the aggregation loop                                      *)
(***************************************************************************)
\* request r has declared its accumulator; Processed(r) lines are behind it
Started(r) == idx[r] >= 1

Processed(r) == idx[r] - 1

\* the handler answered 200
Succeeded(r) == pc[r] = "done" /\ response[r].status = 200

\* the line's code is in the table request r fetched
Found(r, ingredient) == FindIndex(nutrientData[r], ingredient.code) # 0

\* the processed lines of r that had a successful lookup, in input order
FoundLines(r) ==
    SelectSeq(SubSeq(body[r].ingredients, 1, Processed(r)),
              LAMBDA ing : Found(r, ing))

\* the nutrient field that corresponds to each total
C1_FieldOf ==
    [ energy |-> "Energy (Kcal)", protein |-> "Protein (g)", fat |-> "Fat (g)",
      carbs |-> "Carbohydrate (g)", fiber |-> "Total fibre (g)",
      vitaminD |-> "Vitamin D (ug)", vitaminA |-> "Vitamin A (ug)",
      omega3 |-> "Omega 3 (mg)", omega6 |-> "Omega 6 (mg)",
      energyKJ |-> "Energy (KJ)", thiamine |-> "Thiamine, B1 (mg)",
      riboflavin |-> "Riboflavin, B2 (mg)", niacin |-> "Niacin, B3 (mg)",
      pantothenicAcid |-> "Pantothenic Acid B5 (mg)",
      pyridoxine |-> "Pyridoxine B6 (mg)", biotin |-> "Biotin, B7 (ug)",
      folate |-> "Folate, B9 (ug)", vitaminC |-> "Vitamin C (mg)",
      vitaminE |-> "VITE (mg)", vitaminK1 |-> "VITK1 (ug)",
      iron |-> "Iron (Fe) mg", calcium |-> "Calcium (Ca) mg",
      magnesium |-> "Magnesium (Mg) mg", zinc |-> "Zinc (Zn) mg",
      selenium |-> "Selenium (Se) ug", sodium |-> "Sodium (Na) mg",
      potassium |-> "Potassium (K) mg", phosphorus |-> "Phosphorus (P) mg",
      cobalt |-> "Cobalt (Co) mg", mufa |-> "MUFA", pufa |-> "PUFA",
      saturatedFat |-> "SATURATED FAT", totalSugar |-> "TOTAL SUGAR (g)" ]

\* the sum, over the first n lines whose code is in the table, of the
\* line's per-100g value of the field * quantityInGrams / 100
RECURSIVE C1_Sum(_, _, _, _)
C1_Sum(data, lines, field, n) ==
    IF n = 0 THEN Zero
    ELSE LET j    == FindIndex(data, lines[n].code)
             rest == C1_Sum(data, lines, field, n - 1)
         IN  IF j = 0 THEN rest
             ELSE NumAdd(rest,
                         NumDiv(NumMul(ParseOrZero(FieldText(data[j], field)),
                                       ToNumber(lines[n].quantityInGrams)),
                                Hundred))

\* C1: at every point of the aggregation loop and after it, each of the 33
\* totalNutrition fields equals the sum, over the processed ingredient lines
\* whose code is in the nutrient table, of that line's per-100g value of the
\* corresponding field * quantityInGrams / 100; every accumulator receives
\* its own field, and lines with the same code contribute separately.
C1_TotalsAreSums ==
    \A r \in Requests :
        Started(r) =>
            \A k \in TotalKeySet :
                totalNutrition[r][k] =
                    C1_Sum(nutrientData[r], body[r].ingredients, C1_FieldOf[k],
                           Processed(r))

\* C1 witness: a request answered 200 whose list held the same code twice
\* and a code the table lacks, with finite totals that differ by field
C1_Witness ==
    \E r \in Requests :
        /\ Succeeded(r)
        /\ Len(body[r].ingredients) = 3
        /\ Len(recipeItems[r]) = 2
        /\ recipeItems[r][1].code = recipeItems[r][2].code
        /\ \A k \in TotalKeySet : /\ IsFinite(totalNutrition[r][k])
                                  /\ totalNutrition[r][k].n > 0
        /\ \A k1, k2 \in TotalKeySet :
               k1 # k2 => totalNutrition[r][k1] # totalNutrition[r][k2]

RECURSIVE C2_Aggregate(_, _, _, _)
C2_Aggregate(recipeId, data, lines, n) ==
    IF n = 0 THEN [total |-> ZeroTotals, items |-> <<>>]
    ELSE LoopBody(C2_Aggregate(recipeId, data, lines, n - 1),
                  recipeId, data, lines[n])

\* C2: an ingredient line whose code is not in the nutrient data is skipped
\* without error: the totals and the item rows after any number of
\* processed lines are exactly those the loop produces for the same lines
\* with the missing ones taken out.
C2_MissingLinesSkipped ==
    \A r \in Requests :
        Started(r) =>
            [total |-> totalNutrition[r], items |-> recipeItems[r]]
                = C2_Aggregate(r, nutrientData[r], FoundLines(r),
                               Len(FoundLines(r)))

\* C2 witness: a request answered 200 whose second line of three had no
\* nutrient row, and whose first and third lines were emitted
C2_Witness ==
    \E r \in Requests :
        /\ Succeeded(r)
        /\ Len(body[r].ingredients) = 3
        /\ ~Found(r, body[r].ingredients[2])
        /\ Len(recipeItems[r]) = 2
        /\ recipeItems[r][1].lineNo = 1
        /\ recipeItems[r][2].lineNo = 3
        /\ totalNutrition[r].protein # Zero

\* the identifying columns of an item row
RowLine(row) ==
    [lineNo |-> row.lineNo, code |-> row.code,
     quantityInGrams |-> row.quantityInGrams]

\* C3: recipeItems holds exactly one row per processed ingredient line that
\* had a successful lookup, in the order of the input list, never merged or
\* deduplicated; the rows appended to the RecipeItems sheet for a request
\* that answered 200 are these rows in this order.
C3_RowsFollowInput ==
    \A r \in Requests :
        /\ Started(r) =>
               [i \in 1..Len(recipeItems[r]) |-> RowLine(recipeItems[r][i])]
                   = FoundLines(r)
        /\ Succeeded(r) =>
               SelectSeq(recipeItemsSheet, LAMBDA row : row.recipeId = r)
                   = recipeItems[r]

\* C3 witness: a request answered 200 with three rows, two of them of one
\* code with another code's row between them
C3_Witness ==
    \E r \in Requests :
        /\ Succeeded(r)
        /\ Len(recipeItems[r]) = 3
        /\ recipeItems[r][1].code = recipeItems[r][3].code
        /\ recipeItems[r][1].code # recipeItems[r][2].code
        /\ Len(recipeItemsSheet) = 3

-----------------------------------------------------------------------------
(***************************************************************************)
(* Properties of the scaler and the formatter                              *)
(***************************************************************************)
NumNeg(x) == [x EXCEPT !.n = -x.n]

NumAbs(x) == IF x.n < 0 THEN NumNeg(x) ELSE x

\* text is a decimal with exactly digits fraction digits: an optional sign,
\* digits, a period, digits
IsDecimalText(text, digits) ==
    LET start == IF Len(text) > 0 /\ text[1] = "-" THEN 2 ELSE 1
        point == Len(text) - digits
    IN  /\ point > start
        /\ text[point] = "."
        /\ \A i \in start..Len(text) : i # point => text[i] \in DigitSet

\* text is the finite number x rounded to digits decimals: a decimal with
\* that many fraction digits, at most half a unit of the last one from x
IsRoundedText(text, x, digits) ==
    /\ IsDecimalText(text, digits)
    /\ ~NumGt(NumMul(NumAbs(NumAdd(ParseFloat(text), NumNeg(x))),
                     Fin(2 * Pow10(digits), 1)),
              Fin(1, 1))

\* the number x has at most digits decimals
IsRoundedNumber(x, digits) == IsFinite(x) /\ Pow10(digits) % x.d = 0

\* the nutrient row an item row was scaled from
SourceOf(r, row) == nutrientData[r][FindIndex(nutrientData[r], row.code)]

\* the cell texts of the model that hold no number
NonNumericTexts == {<<>>, <<"a", "b", "c">>, UndefinedText}

PersistedRow(r) ==
    SelectSeq(recipesSheet, LAMBDA row : row.recipeId = r)[1]

FiniteTotals(r) == \A k \in TotalKeySet : IsFinite(totalNutrition[r][k])

\* the decimals each total is to be rounded to
C5_Digits(k) ==
    IF k \in {"thiamine", "riboflavin", "pyridoxine", "cobalt"} THEN 3 ELSE 2

\* the totals of the persisted recipe row are rounded, and the row carries
\* the ratio
C5_RowRounded ==
    \A r \in Requests :
        Succeeded(r) /\ FiniteTotals(r) =>
            /\ \A k \in TotalKeySet :
                   /\ PersistedRow(r).total[k].t = "string"
                   /\ IsRoundedText(PersistedRow(r).total[k].s,
                                    totalNutrition[r][k], C5_Digits(k))
            /\ "omega3To6Ratio" \in DOMAIN PersistedRow(r)

\* C5 as claimed: every total the handler exposes, in the persisted recipe
\* row and in nutrition.total of the response, is rounded to its
\* nutrient-specific precision, and the result (the row) carries the ratio.
C5_ExposedTotalsRounded ==
    /\ C5_RowRounded
    /\ \A r \in Requests :
           Succeeded(r) /\ FiniteTotals(r) =>
               \A k \in TotalKeySet :
                   IsRoundedNumber(response[r].nutrition.total[k].v, C5_Digits(k))

\* the positive integers
IsPositiveInteger(v) ==
    v.t = "number" /\ IsFinite(v.v) /\ v.v.d = 1 /\ v.v.n > 0

\* the five totals given per serving
C6_Keys == {"energy", "protein", "fat", "carbs", "fiber"}

\* C6: for a positive integer yield, the per-serving energy, protein, fat,
\* carbs and fiber are the totals divided by the yield and rounded to 2
\* decimals, and the persisted recipe row holds the same per-serving values
\* as the response.
C6_PerServingRounded ==
    \A r \in Requests :
        Succeeded(r) /\ IsPositiveInteger(body[r].yield) =>
            \A k \in C6_Keys :
                /\ response[r].nutrition.perServing[k] = PersistedRow(r).perServing[k]
                /\ response[r].nutrition.perServing[k].t = "string"
                /\ IsFinite(totalNutrition[r][k]) =>
                       IsRoundedText(response[r].nutrition.perServing[k].s,
                                     NumDiv(totalNutrition[r][k], body[r].yield.v),
                                     2)

\* C6 witness: a request of yield 3 answered 200 whose energy total is not
\* a multiple of three hundredths, so that the per-serving text is rounded
C6_Witness ==
    \E r \in Requests :
        /\ Succeeded(r)
        /\ body[r].yield = Num(3)
        /\ IsFinite(totalNutrition[r].energy)
        /\ totalNutrition[r].energy.n > 0
        /\ ~IsRoundedNumber(NumDiv(totalNutrition[r].energy, Fin(3, 1)), 2)

\* the handler of r has computed its ratio and its recipe row
Formatted(r) == recipeRow[r] # NoRow

\* the ratio is total omega3 / total omega6 rounded to 2 decimals when total
\* omega6 > 0, the number 0 otherwise
C7_RatioIsQuotientOrZero(r) ==
    LET o3    == totalNutrition[r].omega3
        o6    == totalNutrition[r].omega6
        ratio == recipeRow[r].omega3To6Ratio
    IN  IF NumGt(o6, Zero)
        THEN /\ ratio.t = "string"
             /\ IsFinite(o3) /\ IsFinite(o6) => IsRoundedText(ratio.s, NumDiv(o3, o6), 2)
        ELSE ratio = JsNum(Zero)

NonNegativeInput(r) ==
    \A n \in 1..Len(body[r].ingredients) :
        LET ing == body[r].ingredients[n]
        IN  Found(r, ing) =>
                /\ IsFinite(ToNumber(ing.quantityInGrams))
                /\ ToNumber(ing.quantityInGrams).n >= 0
                /\ \A f \in NumericFieldSet :
                       LET x == ParseOrZero(FieldText(SourceOf(r, ing), f))
                       IN  IsFinite(x) /\ x.n >= 0

\* the step declares the accumulator of r
DeclaresTotals(r) == pc[r] = "begin" /\ pc'[r] = "loop"

\* the step processes one ingredient line of r
ProcessesLine(r) == pc[r] = "loop" /\ pc'[r] = "loop" /\ idx'[r] = idx[r] + 1

\* C8 as claimed: every totalNutrition field starts at exactly 0 and never
\* decreases from one processed line to the next, for every nutrient table
\* and ingredient list the handler accepts.
C8_NeverDecreases ==
    [][\A r \in Requests :
           /\ DeclaresTotals(r) => totalNutrition'[r] = [k \in TotalKeySet |-> Zero]
           /\ ProcessesLine(r) =>
                  \A k \in TotalKeySet :
                      NumGeq(totalNutrition'[r][k], totalNutrition[r][k])]_vars

\* C8, amended: every totalNutrition field starts at exactly 0, and never
\* decreases from one processed line to the next when every parsed value
\* of the nutrient rows the list refers to is finite and >= 0 and every
\* quantity is a finite number >= 0.
C8_NeverDecreasesOnNonNegativeInput ==
    [][\A r \in Requests :
           /\ DeclaresTotals(r) => totalNutrition'[r] = [k \in TotalKeySet |-> Zero]
           /\ ProcessesLine(r) /\ NonNegativeInput(r) =>
                  \A k \in TotalKeySet :
                      NumGeq(totalNutrition'[r][k], totalNutrition[r][k])]_vars

\* C8 witness: two found lines of a non-negative input are behind the loop,
\* and the totals have grown to positive values
C8_Witness ==
    \E r \in Requests :
        /\ pc[r] = "loop"
        /\ NonNegativeInput(r)
        /\ Len(recipeItems[r]) = 2
        /\ recipeItems[r][1].code # recipeItems[r][2].code
        /\ \A k \in TotalKeySet : NumGeq(totalNutrition[r][k], Zero)
        /\ NumGt(totalNutrition[r].protein, Zero)

-----------------------------------------------------------------------------
(***************************************************************************)
(* Properties of calculateVitaminD                                         *)
(***************************************************************************)
\* a <= b in lexicographic order: a is a prefix of b, or the first
\* character in which they differ is smaller in a
C9_LexLeq(a, b) ==
    \/ /\ Len(a) <= Len(b)
       /\ \A i \in 1..Len(a) : a[i] = b[i]
    \/ \E i \in 1..Len(a) :
           /\ i <= Len(b)
           /\ \A j \in 1..(i - 1) : a[j] = b[j]
           /\ CharCode(a[i]) < CharCode(b[i])

C9_InRange(c, lo, hi) == C9_LexLeq(lo, c) /\ C9_LexLeq(c, hi)

C9_InD2Range(c) == C9_InRange(c, Code("A", 1), Code("L", 4))

C9_InD3Range(c) == C9_InRange(c, Code("M", 1), Code("S", 10))

\* C9: calculateVitaminD returns chocal for every code in the closed
\* lexicographic range ["A001","L004"], chocal + 5*oh25d3 for every code in
\* ["M001","S010"], and 0 for every other code, the codes strictly between
\* "L004" and "M001" among them; no code is in both ranges.
C9_VitaminDByRange ==
    vitD.called =>
        /\ ~(C9_InD2Range(vitD.foodCode) /\ C9_InD3Range(vitD.foodCode))
        /\ vitD.result =
               IF C9_InD2Range(vitD.foodCode) THEN vitD.chocal
               ELSE IF C9_InD3Range(vitD.foodCode)
                    THEN NumAdd(vitD.chocal, NumMul(Fin(5, 1), vitD.oh25d3))
                    ELSE Zero

\* C9 witness: the call for the upper end of the second range, "S010", with
\* chocal = 10 and oh25d3 = 2, which returned 20
C9_Witness ==
    /\ vitD.called
    /\ vitD.foodCode = Code("S", 10)
    /\ vitD.chocal = Fin(10, 1)
    /\ vitD.oh25d3 = Fin(2, 1)
    /\ vitD.result = Fin(20, 1)

-----------------------------------------------------------------------------
(***************************************************************************)
(* Properties of concurrent requests                                       *)
(***************************************************************************)
\* what the loop produces for the body of r and the nutrient sheet alone
C10_Alone(r) ==
    C2_Aggregate(r, GetNutrientData(nutrientSheet), body[r].ingredients,
                 Len(body[r].ingredients))

\* C10: a request whose handler interleaved with another's at the awaits
\* answers, and persists, exactly what it would alone: its totals, its
\* per-serving values, its ratio and its item rows.
C10_RequestsIndependent ==
    \A r \in Requests :
        Succeeded(r) =>
            LET alone == C10_Alone(r)
            IN  /\ response[r] = SuccessResponse(r, body[r].yield, alone.total)
                /\ SelectSeq(recipesSheet, LAMBDA row : row.recipeId = r)
                       = << RecipeRow(r, body[r].yield, alone.total,
                                      Omega3To6Ratio(alone.total)) >>
                /\ SelectSeq(recipeItemsSheet, LAMBDA row : row.recipeId = r)
                       = alone.items
                /\ \A n \in 1..Len(alone.items) : alone.items[n].recipeId = r

\* C10 witness: two requests with different, non-empty ingredient lists both
\* answered 200, the second having run its loop and both of its appends
\* between the two appends of the first
C10_Witness ==
    /\ Succeeded(1)
    /\ Succeeded(2)
    /\ body[1].ingredients # body[2].ingredients
    /\ Len(recipeItems[1]) > 0
    /\ Len(recipeItems[2]) > 0
    /\ recipesSheet[1].recipeId = 1
    /\ recipeItemsSheet[1].recipeId = 2

-----------------------------------------------------------------------------
(***************************************************************************)
(* Properties of the failure path                                          *)
(***************************************************************************)
\* the handler of r answered 500 'Failed to create recipe'
Failed(r) == response[r] = ErrorResponse

\* C11 as claimed: whenever the handler answers 500, no row with the
\* recipeId of that request is in the Recipes sheet or in the RecipeItems
\* sheet, whichever fetch or append call failed.
C11_FailurePersistsNothing ==
    \A r \in Requests :
        Failed(r) =>
            /\ \A n \in 1..Len(recipesSheet) : recipesSheet[n].recipeId # r
            /\ \A n \in 1..Len(recipeItemsSheet) :
                   recipeItemsSheet[n].recipeId # r

=============================================================================
